---------------------------- MODULE Spec2Model ----------------------------
(***************************************************************************)
(* The tokenizer of main.cpp as a state machine.                           *)
(*                                                                         *)
(* The source buffer `code` is a sequence of one-character strings.  The   *)
(* cursor `i` is the 0-based index of main.cpp (code[i] in C++ is          *)
(* code[i+1] here), `line` is the line counter and `tokens` the vector     *)
(* tokenize() builds.  One action is one iteration of the while loop of    *)
(* tokenize(), one action per branch of its if-chain.                      *)
(*                                                                         *)
(* `spans` and `fallthrough` are history variables: for every iteration    *)
(* `spans` records the cursor before and after it, the branch taken and    *)
(* the index of the token it pushed (0 for none); `fallthrough` records    *)
(* whether the number branch ever fell through to the operator branch.     *)
(***************************************************************************)
EXTENDS Integers, Sequences, FiniteSets

VARIABLES code, i, line, tokens, spans, fallthrough

vars == <<code, i, line, tokens, spans, fallthrough>>

\* Longest source buffer explored.
MaxLen == 4

---------------------------------------------------------------------------
(* Characters *)

LF == "\n"
BSL == "\\"
DQ == "\""
SQ == "'"
\* The vertical tab, which has no escape in a TLA+ string.
VT == "VT"
\* What peekChar returns past the end of the buffer ('\0').
NUL == "NUL"

Digits == {"0", "1", "2", "3", "4", "5", "6", "7", "8", "9"}

Letters ==
    {"a", "b", "c", "d", "e", "f", "g", "h", "i", "j", "k", "l", "m",
     "n", "o", "p", "q", "r", "s", "t", "u", "v", "w", "x", "y", "z",
     "A", "B", "C", "D", "E", "F", "G", "H", "I", "J", "K", "L", "M",
     "N", "O", "P", "Q", "R", "S", "T", "U", "V", "W", "X", "Y", "Z"}

isspace(c) == c \in {" ", "\t", LF, "\r", "\f", VT}
isdigit(c) == c \in Digits
isalpha(c) == c \in Letters
isalnum(c) == isalpha(c) \/ isdigit(c)

---------------------------------------------------------------------------
(* Classification helpers *)

Keywords ==
    { <<"i","n","t">>, <<"f","l","o","a","t">>, <<"d","o","u","b","l","e">>,
      <<"c","h","a","r">>, <<"l","o","n","g">>, <<"s","h","o","r","t">>,
      <<"b","o","o","l">>, <<"v","o","i","d">>,
      <<"i","f">>, <<"e","l","s","e">>, <<"f","o","r">>,
      <<"w","h","i","l","e">>, <<"d","o">>, <<"r","e","t","u","r","n">>,
      <<"s","w","i","t","c","h">>, <<"c","a","s","e">>,
      <<"b","r","e","a","k">>, <<"c","o","n","t","i","n","u","e">>,
      <<"c","l","a","s","s">>, <<"s","t","r","u","c","t">>,
      <<"p","u","b","l","i","c">>, <<"p","r","i","v","a","t","e">>,
      <<"p","r","o","t","e","c","t","e","d">>,
      <<"i","n","c","l","u","d","e">>,
      <<"n","a","m","e","s","p","a","c","e">>, <<"u","s","i","n","g">> }

Lower(c) ==
    CASE c = "I" -> "i" [] c = "F" -> "f" [] c = "E" -> "e"
      [] c = "D" -> "d" [] c = "O" -> "o" [] OTHER -> c

\* A case-insensitive lookup.
isKeywordNoCase(s) == [k \in 1..Len(s) |-> Lower(s[k])] \in Keywords

isKeyword(s) == s \in Keywords

Delims == {";", ",", "(", ")", "{", "}", "[", "]"}

isDelimiter(c) == c \in Delims

Ops ==
    { <<"<","<","=">>, <<">",">","=">>,
      <<"=","=">>, <<"!","=">>, <<"<","=">>, <<">","=">>, <<"+","+">>,
      <<"-","-">>, <<"+","=">>, <<"-","=">>, <<"*","=">>, <<"/","=">>,
      <<"%","=">>, <<"<","<">>, <<">",">">>, <<"&","&">>, <<"|","|">>,
      <<"+">>, <<"-">>, <<"*">>, <<"/">>, <<"%">>, <<"=">>, <<"<">>,
      <<">">>, <<"!">>, <<"&">>, <<"|">>, <<"^">>, <<"~">> }

isOperatorString(s) == s \in Ops

---------------------------------------------------------------------------
(* Tokenizer helpers *)

peekChar(s, idx, offset) ==
    IF idx + offset < Len(s) THEN s[idx + offset + 1] ELSE NUL

\* erase(lexeme.size() - 1): the string without its last character.
EraseLast(lex) == SubSeq(lex, 1, Len(lex) - 1)

\* The rest of parseCharLiteral, after the opening quote was pushed and the
\* cursor moved to j.
CharBody(s, j, lex, ln) ==
    LET n == Len(s)
        body ==
            IF s[j + 1] = BSL
            THEN IF j + 1 < n
                 THEN [lexeme |-> lex \o <<s[j + 1], s[j + 2]>>,
                       i |-> j + 2, line |-> ln]
                 ELSE [lexeme |-> Append(lex, s[j + 1]),
                       i |-> j + 1, line |-> ln]
            ELSE [lexeme |-> Append(lex, s[j + 1]), i |-> j + 1,
                  line |-> IF s[j + 1] = LF THEN ln + 1 ELSE ln]
    IN  IF body.i < n /\ s[body.i + 1] = SQ
        THEN [lexeme |-> Append(body.lexeme, SQ), i |-> body.i + 1,
              line |-> body.line]
        ELSE body

parseCharLiteral(s, j, ln) ==
    IF j + 1 >= Len(s)
    THEN [lexeme |-> <<s[j + 1]>>, i |-> j + 1, line |-> ln]
    ELSE CharBody(s, j + 1, <<s[j + 1]>>, ln)

RECURSIVE StringLoopStopAtAnyQuote(_, _, _, _)
\* A loop that ends the literal at a quote that follows a backslash.
StringLoopStopAtAnyQuote(s, j, lex, ln) ==
    IF j >= Len(s)
    THEN [lexeme |-> lex, i |-> j, line |-> ln]
    ELSE LET c == s[j + 1]
         IN  IF c = DQ
             THEN [lexeme |-> Append(lex, c), i |-> j + 1, line |-> ln]
             ELSE StringLoopStopAtAnyQuote(s, j + 1, Append(lex, c),
                                           IF c = LF THEN ln + 1 ELSE ln)

RECURSIVE StringLoop(_, _, _, _)
\* The while loop of parseStringLiteral with the cursor at j.
StringLoop(s, j, lex, ln) ==
    IF j >= Len(s)
    THEN [lexeme |-> lex, i |-> j, line |-> ln]
    ELSE LET c == s[j + 1]
         IN  IF c = BSL
             THEN IF j + 1 < Len(s)
                  THEN StringLoop(s, j + 2, lex \o <<c, s[j + 2]>>, ln)
                  ELSE StringLoop(s, j + 1, Append(lex, c), ln)
             ELSE IF c = DQ
                  THEN [lexeme |-> Append(lex, c), i |-> j + 1, line |-> ln]
                  ELSE StringLoop(s, j + 1, Append(lex, c),
                                  IF c = LF THEN ln + 1 ELSE ln)

parseStringLiteral(s, j, ln) == StringLoop(s, j + 1, <<s[j + 1]>>, ln)

RECURSIVE DigitRun(_, _, _)
\* while (i < n && isdigit(s[i])) { lexeme.push_back(s[i]); ++i; }
DigitRun(s, j, lex) ==
    IF j < Len(s) /\ isdigit(s[j + 1])
    THEN DigitRun(s, j + 1, Append(lex, s[j + 1]))
    ELSE [lexeme |-> lex, i |-> j]

\* The fractional part of parseNumber.
Fraction(s, r) ==
    IF r.i < Len(s) /\ s[r.i + 1] = "."
    THEN DigitRun(s, r.i + 1, Append(r.lexeme, "."))
    ELSE r

\* The exponent part of parseNumber.
Exponent(s, r) ==
    IF r.i < Len(s) /\ s[r.i + 1] \in {"e", "E"}
    THEN LET save == r.i
             m == [lexeme |-> Append(r.lexeme, s[r.i + 1]), i |-> r.i + 1]
             g == IF m.i < Len(s) /\ s[m.i + 1] \in {"+", "-"}
                  THEN [lexeme |-> Append(m.lexeme, s[m.i + 1]),
                        i |-> m.i + 1]
                  ELSE m
             d == DigitRun(s, g.i, g.lexeme)
             expDigits == d.i > g.i
         IN  IF ~expDigits
             THEN [lexeme |-> EraseLast(d.lexeme), i |-> save]
             ELSE d
    ELSE r

parseNumber(s, j) == Exponent(s, Fraction(s, DigitRun(s, j, <<>>)))

\* any_of(num.begin(), num.end(), ::isdigit)
AnyDigit(lex) == \E k \in 1..Len(lex) : isdigit(lex[k])

RECURSIVE LineCommentEnd(_, _)
\* while (i < n && code[i] != '\n') ++i;
LineCommentEnd(s, j) ==
    IF j < Len(s) /\ s[j + 1] # LF THEN LineCommentEnd(s, j + 1) ELSE j

RECURSIVE BlockCommentLoop(_, _, _)
\* while (i + 1 < n && !(code[i] == '*' && code[i+1] == '/')) ...
BlockCommentLoop(s, j, ln) ==
    IF j + 1 < Len(s) /\ ~(s[j + 1] = "*" /\ s[j + 2] = "/")
    THEN BlockCommentLoop(s, j + 1, IF s[j + 1] = LF THEN ln + 1 ELSE ln)
    ELSE [i |-> j, line |-> ln]

RECURSIVE IdentEnd(_, _)
\* while (i < n && (isalnum(code[i]) || code[i] == '_')) ...
IdentEnd(s, j) ==
    IF j < Len(s) /\ (isalnum(s[j + 1]) \/ s[j + 1] = "_")
    THEN IdentEnd(s, j + 1)
    ELSE j

\* The string the operator loop builds for one window length.
Window(s, j, len) ==
    IF \E k \in 0..(len - 1) : peekChar(s, j, k) = NUL
    THEN <<>>
    ELSE [k \in 1..len |-> peekChar(s, j, k - 1)]

IsOpWindow(s, j, len) ==
    Window(s, j, len) # <<>> /\ isOperatorString(Window(s, j, len))

\* A loop that tries the window lengths 1, 2, 3.
MatchOperatorShortestFirst(s, j) ==
    IF IsOpWindow(s, j, 1) THEN Window(s, j, 1)
    ELSE IF IsOpWindow(s, j, 2) THEN Window(s, j, 2)
    ELSE IF IsOpWindow(s, j, 3) THEN Window(s, j, 3)
    ELSE <<>>

\* for (int len = 3; len >= 1; --len): the operator matched at j, or <<>>.
MatchOperator(s, j) ==
    IF IsOpWindow(s, j, 3) THEN Window(s, j, 3)
    ELSE IF IsOpWindow(s, j, 2) THEN Window(s, j, 2)
    ELSE IF IsOpWindow(s, j, 1) THEN Window(s, j, 1)
    ELSE <<>>

---------------------------------------------------------------------------
(* The branches of the loop of tokenize() *)

Cur == code[i + 1]

AtWhitespace == isspace(Cur)
AtLineComment == Cur = "/" /\ peekChar(code, i, 1) = "/"
AtBlockComment == Cur = "/" /\ peekChar(code, i, 1) = "*"
AtCharLiteral == Cur = SQ
AtStringLiteral == Cur = DQ
AtIdentifier == isalpha(Cur) \/ Cur = "_"

\* A number branch entered at any '.'.
AtNumberAnyDot == isdigit(Cur) \/ Cur = "."

AtNumber == isdigit(Cur) \/ (Cur = "." /\ isdigit(peekChar(code, i, 1)))

\* None of the branches before the operator loop took the iteration.
PastNumber ==
    /\ ~AtWhitespace /\ ~AtLineComment /\ ~AtBlockComment
    /\ ~AtCharLiteral /\ ~AtStringLiteral /\ ~AtIdentifier /\ ~AtNumber

\* An iteration that pushes nothing and leaves the cursor at j.
Skip(j, ln, kind) ==
    /\ i' = j
    /\ line' = ln
    /\ tokens' = tokens
    /\ spans' = Append(spans, [from |-> i, to |-> j, kind |-> kind, tok |-> 0])
    /\ UNCHANGED <<code, fallthrough>>

\* tokens.push_back({lex, type, ln}) with the cursor left at j.
Push(lex, type, ln, j, ft) ==
    /\ i' = j
    /\ line' = ln
    /\ tokens' = Append(tokens, [lexeme |-> lex, type |-> type, line |-> ln])
    /\ spans' = Append(spans, [from |-> i, to |-> j, kind |-> type,
                               tok |-> Len(tokens) + 1])
    /\ fallthrough' = ft
    /\ UNCHANGED code

Whitespace ==
    /\ i < Len(code)
    /\ AtWhitespace
    /\ Skip(i + 1, IF Cur = LF THEN line + 1 ELSE line, "Whitespace")

LineComment ==
    /\ i < Len(code)
    /\ ~AtWhitespace
    /\ AtLineComment
    /\ Skip(LineCommentEnd(code, i + 2), line, "LineComment")

BlockComment ==
    /\ i < Len(code)
    /\ ~AtWhitespace /\ ~AtLineComment
    /\ AtBlockComment
    /\ LET r == BlockCommentLoop(code, i + 2, line)
       IN  Skip(IF r.i + 1 < Len(code) THEN r.i + 2 ELSE r.i, r.line,
                "BlockComment")

CharLiteral ==
    /\ i < Len(code)
    /\ ~AtWhitespace /\ ~AtLineComment /\ ~AtBlockComment
    /\ AtCharLiteral
    /\ LET r == parseCharLiteral(code, i, line)
       IN  Push(r.lexeme, "Char", r.line, r.i, fallthrough)

StringLiteral ==
    /\ i < Len(code)
    /\ ~AtWhitespace /\ ~AtLineComment /\ ~AtBlockComment /\ ~AtCharLiteral
    /\ AtStringLiteral
    /\ LET r == parseStringLiteral(code, i, line)
       IN  Push(r.lexeme, "String", r.line, r.i, fallthrough)

IdentifierOrKeyword ==
    /\ i < Len(code)
    /\ ~AtWhitespace /\ ~AtLineComment /\ ~AtBlockComment
    /\ ~AtCharLiteral /\ ~AtStringLiteral
    /\ AtIdentifier
    /\ LET j == IdentEnd(code, i)
           id == SubSeq(code, i + 1, j)
       IN  Push(id, IF isKeyword(id) THEN "Keyword" ELSE "Identifier",
                line, j, fallthrough)

\* The number branch.  When parseNumber's result has no digit the code falls
\* through to the operator, delimiter and unknown branches with the cursor
\* where parseNumber left it and c still the character the iteration began at.
Number ==
    /\ i < Len(code)
    /\ ~AtWhitespace /\ ~AtLineComment /\ ~AtBlockComment
    /\ ~AtCharLiteral /\ ~AtStringLiteral /\ ~AtIdentifier
    /\ AtNumber
    /\ LET r == parseNumber(code, i)
           op == MatchOperator(code, r.i)
       IN  IF r.lexeme # <<>> /\ AnyDigit(r.lexeme)
           THEN Push(r.lexeme, "Number", line, r.i, fallthrough)
           ELSE IF op # <<>>
                THEN Push(op, "Operator", line, r.i + Len(op), TRUE)
                ELSE IF isDelimiter(Cur)
                     THEN Push(<<Cur>>, "Delimiter", line, r.i + 1, TRUE)
                     ELSE Push(<<Cur>>, "Unknown", line, r.i + 1, TRUE)

Operator ==
    /\ i < Len(code)
    /\ PastNumber
    /\ MatchOperator(code, i) # <<>>
    /\ Push(MatchOperator(code, i), "Operator", line,
            i + Len(MatchOperator(code, i)), fallthrough)

Delimiter ==
    /\ i < Len(code)
    /\ PastNumber
    /\ MatchOperator(code, i) = <<>>
    /\ isDelimiter(Cur)
    /\ Push(<<Cur>>, "Delimiter", line, i + 1, fallthrough)

\* A fallback that leaves the cursor where it is.
UnknownStuck(j) == j

\* ++i of the fallback branch.
UnknownNext(j) == j + 1

Unknown ==
    /\ i < Len(code)
    /\ PastNumber
    /\ MatchOperator(code, i) = <<>>
    /\ ~isDelimiter(Cur)
    /\ Push(<<Cur>>, "Unknown", line, UnknownNext(i), fallthrough)

Next ==
    \/ Whitespace
    \/ LineComment
    \/ BlockComment
    \/ CharLiteral
    \/ StringLiteral
    \/ IdentifierOrKeyword
    \/ Number
    \/ Operator
    \/ Delimiter
    \/ Unknown

---------------------------------------------------------------------------
(* Source buffers and specifications *)

SeqsUpTo(A, n) == UNION {[1..k -> A] : k \in 0..n}

\* One character for every branch of the loop.
CoreChars == {LF, "/", "*", SQ, DQ, BSL, "1", ";"}

NumChars == CoreChars \cup {"e", "+", "."}
OpChars == CoreChars \cup {"e", "<", "="}
KwChars == CoreChars \cup {"i", "f", "F", "_"}

InitOver(A) ==
    /\ code \in SeqsUpTo(A, MaxLen)
    /\ i = 0
    /\ line = 1
    /\ tokens = <<>>
    /\ spans = <<>>
    /\ fallthrough = FALSE

Init == InitOver(NumChars)
InitOp == InitOver(OpChars)
InitKw == InitOver(KwChars)

Spec == Init /\ [][Next]_vars
SpecOp == InitOp /\ [][Next]_vars
SpecKw == InitKw /\ [][Next]_vars

---------------------------------------------------------------------------
(* Vocabulary of the properties *)

\* The number of line feeds among the first j characters of s.
LFCount(s, j) == Cardinality({k \in 1..j : s[k] = LF})

\* The iteration that pushed token k.
SpanOf(k) == spans[CHOOSE m \in 1..Len(spans) : spans[m].tok = k]

\* The source text between two cursor positions.
Text(from, to) == SubSeq(code, from + 1, to)

Max(S) == CHOOSE x \in S : \A y \in S : y <= x
Min(S) == CHOOSE x \in S : \A y \in S : x <= y

\* No digit follows the exponent marker at position p and its optional sign.
NoExponentDigits(p) ==
    LET q == IF peekChar(code, p, 1) \in {"+", "-"} THEN p + 2 ELSE p + 1
    IN  ~isdigit(peekChar(code, q, 0))

\* No "*/" closes the block comment opened at position p.
Unterminated(p) ==
    ~\E q \in (p + 2)..(Len(code) - 2) : code[q + 1] = "*" /\ code[q + 2] = "/"

\* The lengths of the members of the operator set that start at position p.
OpLengthsAt(p) ==
    {l \in 1..3 : p + l <= Len(code) /\ Text(p, p + l) \in Ops}

WordChars == Letters \cup Digits \cup {"_"}

\* The end of the maximal run of letters, digits and underscores from p.
RunEnd(p) ==
    Max({q \in p..Len(code) : \A k \in (p + 1)..q : code[k] \in WordChars})

RECURSIVE Escaped(_, _)
\* Position q is the second character of a backslash pair of the string
\* literal opened at position p.
Escaped(p, q) ==
    /\ q >= p + 2
    /\ code[q] = BSL
    /\ ~Escaped(p, q - 1)

\* The cursor after the string literal opened at position p.
StringEnd(p) ==
    LET closers == {q \in (p + 1)..(Len(code) - 1) :
                        code[q + 1] = DQ /\ ~Escaped(p, q)}
    IN  IF closers = {} THEN Len(code) ELSE Min(closers) + 1

NumberStart(p) ==
    \/ isdigit(code[p + 1])
    \/ code[p + 1] = "." /\ isdigit(peekChar(code, p, 1))

---------------------------------------------------------------------------
(* Properties *)

\* C1: the iterations tile the consumed prefix of the input, and every token's
\* lexeme is exactly the source text between the cursor before and the cursor
\* after the iteration that pushed it, so that lexemes and skipped spans
\* reconstruct the input.
C1_Partition ==
    /\ \A m \in 1..Len(spans) :
          spans[m].from = (IF m = 1 THEN 0 ELSE spans[m - 1].to)
    /\ Len(spans) > 0 => spans[Len(spans)].to = i
    /\ \A k \in 1..Len(tokens) :
          tokens[k].lexeme = Text(SpanOf(k).from, SpanOf(k).to)

\* C2: when a Number token stops at an exponent marker that no digit follows
\* (with or without a sign), the cursor is at the marker and the lexeme holds
\* neither the marker nor the sign: it is the source text before the marker.
\* For the input 1e+e the Number token is 1.
C2_ExponentRollback ==
    /\ \A k \in 1..Len(tokens) :
          LET sp == SpanOf(k)
          IN  (/\ tokens[k].type = "Number"
               /\ peekChar(code, sp.to, 0) \in {"e", "E"}
               /\ NoExponentDigits(sp.to))
              => /\ tokens[k].lexeme = Text(sp.from, sp.to)
                 /\ tokens[k].lexeme[Len(tokens[k].lexeme)]
                        \notin {"e", "E", "+", "-"}
    /\ (code = <<"1", "e", "+", "e">> /\ i = Len(code))
          => [k \in 1..Len(tokens) |-> tokens[k].lexeme]
                = << <<"1">>, <<"e">>, <<"+">>, <<"e">> >>

\* C3: every token's line is 1 plus the number of line feeds before its first
\* character.
C3_TokenLineIsStartLine ==
    \A k \in 1..Len(tokens) :
        tokens[k].line = 1 + LFCount(code, SpanOf(k).from)

\* C4: an iteration at a block-comment opener that nothing closes leaves the
\* cursor at the end of the input, and no token starts at or after the opener.
C4_UnterminatedBlockComment ==
    \A m \in 1..Len(spans) :
        (spans[m].kind = "BlockComment" /\ Unterminated(spans[m].from))
        => /\ spans[m].to = Len(code)
           /\ \A k \in 1..Len(tokens) : SpanOf(k).from < spans[m].from

\* C5: before and after every iteration the line counter is 1 plus the number
\* of line feeds in the consumed prefix.
C5_LineCounter == line = 1 + LFCount(code, i)

\* C6: every iteration moves the cursor forward by at least one character and
\* never past the end of the input, and pushes at most one token; iterations
\* and tokens are each at most the input length.
C6_Progress ==
    /\ \A m \in 1..Len(spans) :
          /\ spans[m].from < spans[m].to
          /\ spans[m].to <= Len(code)
    /\ i <= Len(code)
    /\ Cardinality({m \in 1..Len(spans) : spans[m].tok # 0}) = Len(tokens)
    /\ Len(spans) <= Len(code)
    /\ Len(tokens) <= Len(code)

\* A scan of a buffer of three or more characters that took one iteration
\* and pushed one token for every character.
C6_Witness ==
    /\ Len(code) >= 3
    /\ i = Len(code)
    /\ Len(spans) = Len(code)
    /\ Len(tokens) = Len(code)
    /\ \E k \in 1..Len(tokens) : tokens[k].type = "Unknown"

\* C7: an Operator token pushed at position p is the longest member of the
\* operator set that starts at p, and the cursor moves by its length.
C7_LongestOperator ==
    \A k \in 1..Len(tokens) :
        tokens[k].type = "Operator"
        => LET sp == SpanOf(k)
               l == Max(OpLengthsAt(sp.from))
           IN  /\ OpLengthsAt(sp.from) # {}
               /\ tokens[k].lexeme = Text(sp.from, sp.from + l)
               /\ sp.to = sp.from + l

\* The scan of <<=e is over: its first token is the operator <<=.
C7_Witness ==
    /\ code = <<"<", "<", "=", "e">>
    /\ i = Len(code)
    /\ tokens[1] = [lexeme |-> <<"<", "<", "=">>, type |-> "Operator",
                    line |-> 1]
    /\ tokens[2].type = "Identifier"

\* C8: an iteration that begins at a letter or an underscore pushes exactly one
\* token, the maximal run of letters, digits and underscores, a Keyword if the
\* run is a member of the keyword set and an Identifier otherwise.
C8_KeywordOrIdentifier ==
    \A m \in 1..Len(spans) :
        LET p == spans[m].from
            run == Text(p, RunEnd(p))
        IN  code[p + 1] \in Letters \cup {"_"}
            => /\ spans[m].tok # 0
               /\ spans[m].to = RunEnd(p)
               /\ tokens[spans[m].tok].lexeme = run
               /\ tokens[spans[m].tok].type =
                      IF run \in Keywords THEN "Keyword" ELSE "Identifier"
               /\ \A k \in 1..Len(spans) : spans[k].tok = spans[m].tok => k = m

\* A finished scan that pushed the keyword if and, after it, an identifier.
C8_Witness ==
    /\ i = Len(code)
    /\ Len(tokens) >= 2
    /\ tokens[1] = [lexeme |-> <<"i", "f">>, type |-> "Keyword", line |-> 1]
    /\ \E k \in 2..Len(tokens) : tokens[k].type = "Identifier"

\* C9: an iteration that begins at a double quote pushes exactly one String
\* token, whose lexeme runs from the quote through the first double quote that
\* is not the second character of a backslash pair, or to the end of input.
C9_StringLiteral ==
    \A m \in 1..Len(spans) :
        LET p == spans[m].from
        IN  code[p + 1] = DQ
            => /\ spans[m].tok # 0
               /\ tokens[spans[m].tok].type = "String"
               /\ tokens[spans[m].tok].lexeme = Text(p, StringEnd(p))
               /\ spans[m].to = StringEnd(p)
               /\ \A k \in 1..Len(spans) : spans[k].tok = spans[m].tok => k = m

\* The scan of "\"" pushed the whole input as one String token.
C9_Witness ==
    /\ code = <<DQ, BSL, DQ, DQ>>
    /\ i = Len(code)
    /\ Len(tokens) = 1
    /\ tokens[1].type = "String"
    /\ tokens[1].lexeme = code

\* C10: an iteration that begins at a digit, or at a dot that a digit follows,
\* pushes exactly one Number token whose lexeme holds a digit; the number
\* branch never falls through; a dot that no digit follows is pushed as a
\* one-character Unknown token and the cursor moves by one.
C10_NumberRule ==
    /\ ~fallthrough
    /\ \A m \in 1..Len(spans) :
          LET p == spans[m].from
          IN  /\ NumberStart(p)
                 => /\ spans[m].tok # 0
                    /\ tokens[spans[m].tok].type = "Number"
                    /\ AnyDigit(tokens[spans[m].tok].lexeme)
              /\ (code[p + 1] = "." /\ ~NumberStart(p))
                 => /\ spans[m].tok # 0
                    /\ tokens[spans[m].tok] =
                           [lexeme |-> <<".">>, type |-> "Unknown",
                            line |-> tokens[spans[m].tok].line]
                    /\ spans[m].to = p + 1

\* A finished scan that pushed a lone dot as Unknown and a number that
\* begins with a dot.
C10_Witness ==
    /\ i = Len(code)
    /\ \E k \in 1..Len(tokens) :
          tokens[k].type = "Unknown" /\ tokens[k].lexeme = <<".">>
    /\ \E k \in 1..Len(tokens) :
          tokens[k].type = "Number" /\ tokens[k].lexeme[1] = "."

=============================================================================
